---- MODULE Spec2Model ----
(***************************************************************************)
(* Taxi Park Admin API (src/api.py): a FastAPI application over an SQLite  *)
(* store with two tables, cars and drivers.                                *)
(*                                                                         *)
(* Conventions of the model                                                *)
(*  - A table is the sequence of its rows in rowid order.  The API never   *)
(*    deletes a row, so the AUTOINCREMENT id of the i-th row is i.         *)
(*  - Optional[T] / SQL NULL: None is the empty set, a present value v is  *)
(*    the singleton {v}.                                                   *)
(*  - Opaque strings whose only use is equality stand as naturals: license *)
(*    plate n and phone n are the n-th distinct plate / phone number; the  *)
(*    seed rows hold plates 1..7 and phones 1..5.                          *)
(*  - REAL columns are kept in tenths: distance 53 is 5.3, rating 49 is    *)
(*    4.9, so the rating range [0,5] is 0..50.                             *)
(*  - created_at is filled by the column default on INSERT and named by no *)
(*    UPDATE statement; the column is left out of the rows.                *)
(*  - is_active is stored as the integer 1 or 0 and read back as a bool.   *)
(***************************************************************************)
EXTENDS Integers, Sequences, FiniteSets, TLC

\* ------------------------------------------------------------------ bounds
\* Requests issued in one behaviour of Spec.
MaxRequests == 2
\* Rows of the cars table in one behaviour of SpecFleet: with the five seeded
\* vehicles that are not under repair, 106 rows hold 101 vehicles under repair.
MaxFleet == 106

\* ------------------------------------------------------- program constants
\* limit: int = Query(100, ge=1, le=500)
DefaultLimit == 100
MaxLimit == 500
\* rating: float = Field(5.0, ge=0, le=5), in tenths
DefaultRating == 50
MaxRating == 50
\* threshold: float = Query(4.0, ge=0, le=5), in tenths
DefaultThreshold == 40

\* ------------------------------------------------------------ Optional[T]
None == {}
Some(v) == {v}
Val(o) == CHOOSE v \in o : TRUE

Range(s) == {s[i] : i \in 1..Len(s)}
Min(a, b) == IF a < b THEN a ELSE b

RECURSIVE Flatten(_)
Flatten(ss) == IF ss = <<>> THEN <<>> ELSE Head(ss) \o Flatten(Tail(ss))

\* ------------------------------------------------------------------ schema
CarStatus == {"FREE", "BUSY", "REPAIR"}

\* One row of INSERT INTO cars (status, license_plate, brand, color, distance).
CarRow(id, status, plate, brand, color, distance) ==
    [id |-> id, status |-> status, license_plate |-> plate, brand |-> brand,
     color |-> color, distance |-> distance]

\* One row of INSERT INTO drivers (full_name, phone, rating, car_id);
\* is_active takes its column default 1.
DriverRow(id, name, phone, rating, car_id) ==
    [id |-> id, full_name |-> name, phone |-> phone, rating |-> rating,
     car_id |-> car_id, is_active |-> 1]

\* The seed rows init_db() inserts into an empty store.
SeedCars ==
    << CarRow(1, "FREE",   1, "Toyota",     "White",  53),
       CarRow(2, "BUSY",   2, "Hyundai",    "Black",  21),
       CarRow(3, "REPAIR", 3, "Kia",        "Grey",   87),
       CarRow(4, "BUSY",   4, "Skoda",      "Blue",   15),
       CarRow(5, "FREE",   5, "Volkswagen", "Red",    42),
       CarRow(6, "REPAIR", 6, "Renault",    "White",  68),
       CarRow(7, "FREE",   7, "Toyota",     "Silver", 34) >>

SeedDrivers ==
    << DriverRow(1, "Ivanov",  1, 49, Some(1)),
       DriverRow(2, "Petrov",  2, 47, Some(2)),
       DriverRow(3, "Sidorov", 3, 50, Some(4)),
       DriverRow(4, "Smirnov", 4, 45, Some(5)),
       DriverRow(5, "Kozlov",  5, 48, Some(7)) >>

\* PRAGMA foreign_keys of a connection: get_db() never sets it, so it keeps
\* SQLite's default, off, and the FOREIGN KEY clause of drivers is not enforced.
foreign_keys == FALSE

\* A store as a connection sees it: the two tables and its foreign_keys pragma.
Store(c, d, fk) == [cars |-> c, drivers |-> d, foreign_keys |-> fk]

\* ----------------------------------------------------- table constraints
\* The cars table without UNIQUE on license_plate: the mutant of CarsViolation.
CarsViolation_NoUniquePlate(rows) ==
    IF \E i \in 1..Len(rows) : rows[i].status \notin CarStatus
    THEN "CHECK constraint failed: status"
    ELSE ""

\* cars: license_plate TEXT UNIQUE NOT NULL, CHECK(status IN (...)).
\* The message of the sqlite3.IntegrityError the rows would raise, "" if none;
\* SQLite reports a failed CHECK before a failed UNIQUE index.
CarsViolation(rows) ==
    IF \E i \in 1..Len(rows) : rows[i].status \notin CarStatus
    THEN "CHECK constraint failed: status"
    ELSE IF \E i, j \in 1..Len(rows) :
               i # j /\ rows[i].license_plate = rows[j].license_plate
    THEN "UNIQUE constraint failed: cars.license_plate"
    ELSE ""

\* The drivers table without UNIQUE on car_id: the mutant of DriversViolation.
DriversViolation_NoUniqueCar(rows, db) ==
    IF \E i \in 1..Len(rows) : rows[i].rating < 0 \/ rows[i].rating > MaxRating
    THEN "CHECK constraint failed: rating"
    ELSE IF \E i, j \in 1..Len(rows) : i # j /\ rows[i].phone = rows[j].phone
    THEN "UNIQUE constraint failed: drivers.phone"
    ELSE IF db.foreign_keys
            /\ \E i \in 1..Len(rows) :
                  /\ rows[i].car_id # None
                  /\ Val(rows[i].car_id) \notin 1..Len(db.cars)
    THEN "FOREIGN KEY constraint failed"
    ELSE ""

\* drivers: car_id INTEGER UNIQUE (NULLs are distinct), phone TEXT UNIQUE,
\* CHECK(rating >= 0 AND rating <= 5), FOREIGN KEY (car_id) REFERENCES cars(id)
\* enforced only when the foreign_keys pragma is on.  SQLite reports the
\* CHECK first, then the car_id index, then the phone index, then the key.
DriversViolation(rows, db) ==
    IF \E i \in 1..Len(rows) : rows[i].rating < 0 \/ rows[i].rating > MaxRating
    THEN "CHECK constraint failed: rating"
    ELSE IF \E i, j \in 1..Len(rows) :
               i # j /\ rows[i].car_id # None /\ rows[i].car_id = rows[j].car_id
    THEN "UNIQUE constraint failed: drivers.car_id"
    ELSE IF \E i, j \in 1..Len(rows) : i # j /\ rows[i].phone = rows[j].phone
    THEN "UNIQUE constraint failed: drivers.phone"
    ELSE IF db.foreign_keys
            /\ \E i \in 1..Len(rows) :
                  /\ rows[i].car_id # None
                  /\ Val(rows[i].car_id) \notin 1..Len(db.cars)
    THEN "FOREIGN KEY constraint failed"
    ELSE ""

\* --------------------------------------------------------- SQL statements
\* The outcome of cursor.execute() of a writing statement: the error message
\* ("" when the statement ran), the connection's store afterwards (a failed
\* statement changes nothing) and cursor.lastrowid.
Executed(conn, rowid) == [error |-> "", conn |-> conn, lastrowid |-> rowid]
IntegrityError(msg, conn) == [error |-> msg, conn |-> conn, lastrowid |-> 0]

\* The value column c holds after UPDATE ... SET <fields>, fields being the
\* column names of the "c = ?" items and vals the parameters bound to them in
\* the same order: the parameter when the statement names c, the row's own
\* value otherwise.
Assigned(c, fields, vals, row) ==
    IF c \in Range(fields)
    THEN vals[CHOOSE k \in 1..Len(fields) : fields[k] = c]
    ELSE row[c]

\* INSERT INTO cars (status, license_plate, brand, color, distance) VALUES (...)
InsertCar(conn, status, plate, brand, color, distance) ==
    LET id   == Len(conn.cars) + 1
        rows == Append(conn.cars, CarRow(id, status, plate, brand, color, distance))
        msg  == CarsViolation(rows)
    IN IF msg # "" THEN IntegrityError(msg, conn)
       ELSE Executed([conn EXCEPT !.cars = rows], id)

\* UPDATE cars SET <fields> WHERE id = ?  with one parameter per field.
UpdateCars(conn, fields, vals, id) ==
    LET rows == [i \in 1..Len(conn.cars) |->
                   IF conn.cars[i].id = id
                   THEN [id            |-> conn.cars[i].id,
                         status        |-> Assigned("status", fields, vals, conn.cars[i]),
                         license_plate |-> conn.cars[i].license_plate,
                         brand         |-> conn.cars[i].brand,
                         color         |-> Assigned("color", fields, vals, conn.cars[i]),
                         distance      |-> Assigned("distance", fields, vals, conn.cars[i])]
                   ELSE conn.cars[i]]
        msg  == CarsViolation(rows)
    IN IF msg # "" THEN IntegrityError(msg, conn)
       ELSE Executed([conn EXCEPT !.cars = rows], 0)

\* INSERT INTO drivers (full_name, phone, rating, car_id) VALUES (...)
InsertDriver(conn, name, phone, rating, car_id) ==
    LET id   == Len(conn.drivers) + 1
        rows == Append(conn.drivers, DriverRow(id, name, phone, rating, car_id))
        msg  == DriversViolation(rows, conn)
    IN IF msg # "" THEN IntegrityError(msg, conn)
       ELSE Executed([conn EXCEPT !.drivers = rows], id)

\* UPDATE drivers SET <fields> WHERE id = ?  with one parameter per field.
UpdateDrivers(conn, fields, vals, id) ==
    LET rows == [i \in 1..Len(conn.drivers) |->
                   IF conn.drivers[i].id = id
                   THEN [id        |-> conn.drivers[i].id,
                         full_name |-> Assigned("full_name", fields, vals, conn.drivers[i]),
                         phone     |-> Assigned("phone", fields, vals, conn.drivers[i]),
                         rating    |-> Assigned("rating", fields, vals, conn.drivers[i]),
                         car_id    |-> Assigned("car_id", fields, vals, conn.drivers[i]),
                         is_active |-> Assigned("is_active", fields, vals, conn.drivers[i])]
                   ELSE conn.drivers[i]]
        msg  == DriversViolation(rows, conn)
    IN IF msg # "" THEN IntegrityError(msg, conn)
       ELSE Executed([conn EXCEPT !.drivers = rows], 0)

\* SELECT ... FROM cars WHERE id = ?      (fetchall)
SelectCarById(conn, id) == SelectSeq(conn.cars, LAMBDA c : c.id = id)
\* SELECT ... FROM drivers WHERE id = ?   (fetchall)
SelectDriverById(conn, id) == SelectSeq(conn.drivers, LAMBDA d : d.id = id)

\* FROM cars c LEFT JOIN drivers d ON d.car_id = c.id, in c.id order: one row
\* per matching driver, one row with a NULL driver when there is none.
CarsLeftJoinDrivers(conn) ==
    Flatten([i \in 1..Len(conn.cars) |->
        LET c  == conn.cars[i]
            ds == SelectSeq(conn.drivers, LAMBDA d : d.car_id = Some(c.id))
        IN IF ds = <<>> THEN << [car |-> c, driver |-> None] >>
           ELSE [k \in 1..Len(ds) |-> [car |-> c, driver |-> Some(ds[k])]]])

\* FROM drivers d LEFT JOIN cars c ON d.car_id = c.id, in d.id order; cars.id
\* is the primary key, so a driver joins at most one car.
DriversLeftJoinCars(conn) ==
    [i \in 1..Len(conn.drivers) |->
        LET d  == conn.drivers[i]
            cs == SelectSeq(conn.cars, LAMBDA c : d.car_id = Some(c.id))
        IN [driver |-> d,
            car |-> IF cs = <<>> THEN None ELSE Some(cs[1])]]

\* LIMIT ? OFFSET ?
LimitOffset(rows, limit, offset) ==
    SubSeq(rows, offset + 1, Min(offset + limit, Len(rows)))

\* ORDER BY rating ASC over rows given in id order; equal ratings stay in id
\* order (the rowid order of the idx_drivers_rating index).
RECURSIVE OrderByRating(_)
OrderByRating(rows) ==
    IF rows = <<>> THEN <<>>
    ELSE LET lo == CHOOSE i \in 1..Len(rows) :
                      \A j \in 1..Len(rows) :
                          \/ rows[i].rating < rows[j].rating
                          \/ rows[i].rating = rows[j].rating /\ i <= j
         IN << rows[lo] >> \o
            OrderByRating(SubSeq(rows, 1, lo - 1) \o SubSeq(rows, lo + 1, Len(rows)))

\* ------------------------------------------------------- response schemas
\* CarOut(**dict(row))
CarOut(row) ==
    [id |-> row.id, status |-> row.status, license_plate |-> row.license_plate,
     brand |-> row.brand, color |-> row.color, distance |-> row.distance]

\* DriverOut(**dict(row)); the stored integer is_active becomes a bool.
DriverOut(row) ==
    [id |-> row.id, full_name |-> row.full_name, phone |-> row.phone,
     rating |-> row.rating, car_id |-> row.car_id, is_active |-> (row.is_active = 1)]

\* The CarWithDriver built from one row of the cars/drivers join: the driver
\* is nested when the joined driver_id is truthy, with car_id taken from the
\* car's id.
CarWithDriver(jr) ==
    LET c == CarOut(jr.car)
    IN [id |-> c.id, status |-> c.status, license_plate |-> c.license_plate,
        brand |-> c.brand, color |-> c.color, distance |-> c.distance,
        driver |-> IF jr.driver # None /\ Val(jr.driver).id # 0
                   THEN Some(DriverOut([Val(jr.driver) EXCEPT !.car_id = Some(jr.car.id)]))
                   ELSE None]

\* The DriverWithCar built from one row of the drivers/cars join: the car is
\* nested when the joined car_id_fk is truthy.
DriverWithCar(jr) ==
    LET d == DriverOut(jr.driver)
    IN [id |-> d.id, full_name |-> d.full_name, phone |-> d.phone,
        rating |-> d.rating, car_id |-> d.car_id, is_active |-> d.is_active,
        car |-> IF jr.car # None /\ Val(jr.car).id # 0
                THEN Some(CarOut(Val(jr.car)))
                ELSE None]

\* ------------------------------------------------------ handler outcomes
\* How a handler body leaves its "with get_db() as conn" block: by return
\* (the response it returns) or by raise HTTPException(status, detail); conn
\* is the connection's store at that point.
Return(status, body, conn) ==
    [raised |-> FALSE, status |-> status, body |-> body, detail |-> "", conn |-> conn]
HTTPException(status, detail, conn) ==
    [raised |-> TRUE, status |-> status, body |-> <<>>, detail |-> detail, conn |-> conn]

\* An exception no handler code catches: the block raises, the server answers 500.
Unhandled(conn) ==
    [raised |-> TRUE, status |-> 500, body |-> <<>>, detail |-> "internal server error",
     conn |-> conn]

\* get_db(): commit when the block completes, rollback to the store the
\* connection opened on when it raises.  The store after the request.
get_db(db, res) == IF res.raised THEN db ELSE res.conn

\* ----------------------------------------------------------- car handlers
\* GET /cars/in-repair
get_cars_in_repair(conn) ==
    LET rows == SelectSeq(conn.cars, LAMBDA c : c.status = "REPAIR")
    IN Return(200, [i \in 1..Len(rows) |-> CarOut(rows[i])], conn)

\* GET /cars/{car_id}
get_car(conn, car_id) ==
    LET rows == SelectSeq(CarsLeftJoinDrivers(conn), LAMBDA jr : jr.car.id = car_id)
    IN IF rows = <<>> THEN HTTPException(404, "car not found", conn)
       ELSE Return(200, CarWithDriver(rows[1]), conn)

\* GET /cars with a status filter ignored: the mutant of get_cars.
get_cars_NoStatusFilter(conn, status, min_distance, max_distance, limit, offset) ==
    LET rows == SelectSeq(CarsLeftJoinDrivers(conn), LAMBDA jr :
                    /\ (min_distance # None => jr.car.distance >= Val(min_distance))
                    /\ (max_distance # None => jr.car.distance <= Val(max_distance)))
        page == LimitOffset(rows, limit, offset)
    IN Return(200, [i \in 1..Len(page) |-> CarWithDriver(page[i])], conn)

\* GET /cars
get_cars(conn, status, min_distance, max_distance, limit, offset) ==
    LET rows == SelectSeq(CarsLeftJoinDrivers(conn), LAMBDA jr :
                    /\ (status # None => jr.car.status = Val(status))
                    /\ (min_distance # None => jr.car.distance >= Val(min_distance))
                    /\ (max_distance # None => jr.car.distance <= Val(max_distance)))
        page == LimitOffset(rows, limit, offset)
    IN Return(200, [i \in 1..Len(page) |-> CarWithDriver(page[i])], conn)

\* POST /cars
create_car(conn, car) ==
    LET ins == InsertCar(conn, car.status, car.license_plate, car.brand,
                         car.color, car.distance)
    IN IF ins.error # ""
       THEN HTTPException(400, "car with this license plate already exists", ins.conn)
       ELSE Return(201, CarOut(SelectCarById(ins.conn, ins.lastrowid)[1]), ins.conn)

\* PATCH /cars/{car_id} resetting an omitted status to the column default:
\* the mutant of update_car.
update_car_ResetsStatus(conn, car_id, car_update) ==
    IF SelectCarById(conn, car_id) = <<>>
    THEN HTTPException(404, "car not found", conn)
    ELSE
    LET fields == << "status" >>
                  \o (IF car_update.color # None THEN << "color" >> ELSE <<>>)
                  \o (IF car_update.distance # None THEN << "distance" >> ELSE <<>>)
        params == (IF car_update.status # None THEN << Val(car_update.status) >>
                                              ELSE << "FREE" >>)
                  \o (IF car_update.color # None THEN << Val(car_update.color) >> ELSE <<>>)
                  \o (IF car_update.distance # None THEN << Val(car_update.distance) >> ELSE <<>>)
        upd == UpdateCars(conn, fields, params, car_id)
    IN Return(200, CarOut(SelectCarById(upd.conn, car_id)[1]), upd.conn)

\* PATCH /cars/{car_id}
update_car(conn, car_id, car_update) ==
    IF SelectCarById(conn, car_id) = <<>>
    THEN HTTPException(404, "car not found", conn)
    ELSE
    LET fields == (IF car_update.status # None THEN << "status" >> ELSE <<>>)
                  \o (IF car_update.color # None THEN << "color" >> ELSE <<>>)
                  \o (IF car_update.distance # None THEN << "distance" >> ELSE <<>>)
        params == (IF car_update.status # None THEN << Val(car_update.status) >> ELSE <<>>)
                  \o (IF car_update.color # None THEN << Val(car_update.color) >> ELSE <<>>)
                  \o (IF car_update.distance # None THEN << Val(car_update.distance) >> ELSE <<>>)
        upd == UpdateCars(conn, fields, params, car_id)
    IN IF fields = <<>>
       THEN Return(200, CarOut(SelectCarById(conn, car_id)[1]), conn)
       ELSE IF upd.error # "" THEN Unhandled(upd.conn)
       ELSE Return(200, CarOut(SelectCarById(upd.conn, car_id)[1]), upd.conn)

\* -------------------------------------------------------- driver handlers
\* GET /drivers
get_drivers(conn, min_rating, only_active, limit, offset) ==
    LET rows == SelectSeq(DriversLeftJoinCars(conn), LAMBDA jr :
                    /\ (min_rating # None => jr.driver.rating >= Val(min_rating))
                    /\ (only_active => jr.driver.is_active = 1))
        page == LimitOffset(rows, limit, offset)
    IN Return(200, [i \in 1..Len(page) |-> DriverWithCar(page[i])], conn)

\* GET /drivers/{driver_id}
get_driver(conn, driver_id) ==
    LET rows == SelectSeq(DriversLeftJoinCars(conn), LAMBDA jr : jr.driver.id = driver_id)
    IN IF rows = <<>> THEN HTTPException(404, "driver not found", conn)
       ELSE Return(200, DriverWithCar(rows[1]), conn)

\* "phone" in str(e), over the messages DriversViolation produces.
MentionsPhone(msg) == msg = "UNIQUE constraint failed: drivers.phone"

\* if driver.car_id: -- neither None nor 0.
Truthy(car_id) == car_id # None /\ Val(car_id) # 0

\* POST /drivers that inserts before it looks the vehicle up and answers an
\* unknown vehicle with a returned 400 response: the mutant of create_driver.
create_driver_InsertsFirst(conn, driver) ==
    LET ins == InsertDriver(conn, driver.full_name, driver.phone, driver.rating,
                            driver.car_id)
    IN IF Truthy(driver.car_id)
          /\ SelectSeq(conn.drivers, LAMBDA d : d.car_id = driver.car_id) # <<>>
       THEN HTTPException(400, "car already assigned to another driver", conn)
       ELSE IF ins.error # ""
       THEN IF MentionsPhone(ins.error)
            THEN HTTPException(400, "driver with this phone already exists", ins.conn)
            ELSE HTTPException(400, "integrity error", ins.conn)
       ELSE IF Truthy(driver.car_id) /\ SelectCarById(conn, Val(driver.car_id)) = <<>>
       THEN Return(400, <<>>, ins.conn)
       ELSE Return(201, DriverOut(SelectDriverById(ins.conn, ins.lastrowid)[1]), ins.conn)

\* POST /drivers
create_driver(conn, driver) ==
    IF Truthy(driver.car_id) /\ SelectCarById(conn, Val(driver.car_id)) = <<>>
    THEN HTTPException(400, "car with this id does not exist", conn)
    ELSE IF Truthy(driver.car_id)
            /\ SelectSeq(conn.drivers, LAMBDA d : d.car_id = driver.car_id) # <<>>
    THEN HTTPException(400, "car already assigned to another driver", conn)
    ELSE
    LET ins == InsertDriver(conn, driver.full_name, driver.phone, driver.rating,
                            driver.car_id)
    IN IF ins.error # ""
       THEN IF MentionsPhone(ins.error)
            THEN HTTPException(400, "driver with this phone already exists", ins.conn)
            ELSE HTTPException(400, "integrity error", ins.conn)
       ELSE Return(201, DriverOut(SelectDriverById(ins.conn, ins.lastrowid)[1]), ins.conn)

\* The try block of create_driver: the INSERT, then the SELECT of the new row
\* and the return; an IntegrityError of the INSERT is answered with 400.
create_driver_insert(conn, driver) ==
    LET ins == InsertDriver(conn, driver.full_name, driver.phone, driver.rating,
                            driver.car_id)
    IN IF ins.error # ""
       THEN IF MentionsPhone(ins.error)
            THEN HTTPException(400, "driver with this phone already exists", ins.conn)
            ELSE HTTPException(400, "integrity error", ins.conn)
       ELSE Return(201, DriverOut(SelectDriverById(ins.conn, ins.lastrowid)[1]), ins.conn)

\* The UPDATE of update_driver: the SET list built from the fields of the
\* request that are not None (car_id being the value left after the sentinel
\* step), then the statement, its IntegrityError answered with 400.
update_driver_write(conn, driver_id, driver_update, car_id) ==
    LET fields == (IF driver_update.full_name # None THEN << "full_name" >> ELSE <<>>)
                  \o (IF driver_update.phone # None THEN << "phone" >> ELSE <<>>)
                  \o (IF driver_update.rating # None THEN << "rating" >> ELSE <<>>)
                  \o (IF car_id # None THEN << "car_id" >> ELSE <<>>)
                  \o (IF driver_update.is_active # None THEN << "is_active" >> ELSE <<>>)
        params == (IF driver_update.full_name # None
                   THEN << Val(driver_update.full_name) >> ELSE <<>>)
                  \o (IF driver_update.phone # None
                      THEN << Val(driver_update.phone) >> ELSE <<>>)
                  \o (IF driver_update.rating # None
                      THEN << Val(driver_update.rating) >> ELSE <<>>)
                  \o (IF car_id # None THEN << car_id >> ELSE <<>>)
                  \o (IF driver_update.is_active # None
                      THEN << IF Val(driver_update.is_active) THEN 1 ELSE 0 >> ELSE <<>>)
        upd == UpdateDrivers(conn, fields, params, driver_id)
    IN IF fields = <<>>
       THEN Return(200, DriverOut(SelectDriverById(conn, driver_id)[1]), conn)
       ELSE IF upd.error # ""
       THEN HTTPException(400, "uniqueness violated (phone may be in use)", upd.conn)
       ELSE Return(200, DriverOut(SelectDriverById(upd.conn, driver_id)[1]), upd.conn)

\* PATCH /drivers/{driver_id} that takes the vehicle from its holder instead
\* of refusing: the mutant of update_driver.
update_driver_Reassigns(conn, driver_id, driver_update) ==
    IF SelectDriverById(conn, driver_id) = <<>>
    THEN HTTPException(404, "driver not found", conn)
    ELSE IF driver_update.car_id # None /\ Val(driver_update.car_id) = 0
    THEN update_driver_write(conn, driver_id, driver_update, None)
    ELSE IF driver_update.car_id # None
            /\ SelectCarById(conn, Val(driver_update.car_id)) = <<>>
    THEN HTTPException(400, "car does not exist", conn)
    ELSE
    LET freed == [i \in 1..Len(conn.drivers) |->
                    IF conn.drivers[i].car_id # None
                       /\ conn.drivers[i].car_id = driver_update.car_id
                       /\ conn.drivers[i].id # driver_id
                    THEN [conn.drivers[i] EXCEPT !.car_id = None]
                    ELSE conn.drivers[i]]
    IN update_driver_write([conn EXCEPT !.drivers = freed], driver_id, driver_update,
                           driver_update.car_id)

\* PATCH /drivers/{driver_id}
update_driver(conn, driver_id, driver_update) ==
    IF SelectDriverById(conn, driver_id) = <<>>
    THEN HTTPException(404, "driver not found", conn)
    ELSE IF driver_update.car_id # None /\ Val(driver_update.car_id) = 0
    THEN update_driver_write(conn, driver_id, driver_update, None)
    ELSE IF driver_update.car_id # None
            /\ SelectCarById(conn, Val(driver_update.car_id)) = <<>>
    THEN HTTPException(400, "car does not exist", conn)
    ELSE IF driver_update.car_id # None
            /\ SelectSeq(conn.drivers, LAMBDA d :
                   d.car_id = driver_update.car_id /\ d.id # driver_id) # <<>>
    THEN HTTPException(400, "car already assigned to another driver", conn)
    ELSE update_driver_write(conn, driver_id, driver_update, driver_update.car_id)

\* GET /drivers/low-rating
get_drivers_low_rating(conn, threshold) ==
    LET rows == OrderByRating(SelectSeq(conn.drivers, LAMBDA d :
                    d.rating < threshold /\ d.is_active = 1))
    IN Return(200, [i \in 1..Len(rows) |-> DriverOut(rows[i])], conn)

\* ---------------------------------------------------------------- routing
\* A path is the sequence of its segments.  A request segment is either the
\* decimal text of an integer (Num) or some other text (Lit); a route segment
\* is a literal or a {parameter}.
Lit(s) == [kind |-> "str", str |-> s, int |-> 0]
Num(n) == [kind |-> "int", str |-> "", int |-> n]
Param(name) == [kind |-> "param", str |-> name, int |-> 0]

Route(method, path, endpoint) == [method |-> method, path |-> path, endpoint |-> endpoint]

\* The routes of app in the order their decorators run.
Routes ==
    << Route("GET",   << Lit("cars"), Lit("in-repair") >>,       "get_cars_in_repair"),
       Route("GET",   << Lit("cars"), Param("car_id") >>,        "get_car"),
       Route("GET",   << Lit("cars") >>,                         "get_cars"),
       Route("POST",  << Lit("cars") >>,                         "create_car"),
       Route("PATCH", << Lit("cars"), Param("car_id") >>,        "update_car"),
       Route("GET",   << Lit("drivers") >>,                      "get_drivers"),
       Route("GET",   << Lit("drivers"), Param("driver_id") >>,  "get_driver"),
       Route("POST",  << Lit("drivers") >>,                      "create_driver"),
       Route("PATCH", << Lit("drivers"), Param("driver_id") >>,  "update_driver"),
       Route("GET",   << Lit("drivers"), Lit("low-rating") >>,   "get_drivers_low_rating") >>

\* A {parameter} matches any one segment, a literal only itself.
PathMatches(pattern, path) ==
    /\ Len(pattern) = Len(path)
    /\ \A i \in 1..Len(pattern) : pattern[i].kind = "param" \/ pattern[i] = path[i]

\* The router: the first route, in order, matching path and method; with a
\* path match only, 405; with none, 404.
Dispatch(routes, method, path) ==
    LET full    == {i \in 1..Len(routes) :
                      PathMatches(routes[i].path, path) /\ routes[i].method = method}
        partial == {i \in 1..Len(routes) : PathMatches(routes[i].path, path)}
    IN IF full # {}
       THEN routes[CHOOSE i \in full : \A j \in full : i <= j].endpoint
       ELSE IF partial # {} THEN "method_not_allowed"
       ELSE "not_found"

\* ------------------------------------------------ request validation, app
\* What the client receives and the store the request leaves behind.
Response(endpoint, status, body, detail, db) ==
    [endpoint |-> endpoint, status |-> status, body |-> body, detail |-> detail, db |-> db]

\* 422: a parameter or body failed validation; the handler is not called.
RequestValidationError(endpoint, db) ==
    Response(endpoint, 422, <<>>, "validation error", db)

\* The handler ran inside get_db().
Handled(endpoint, db, res) ==
    Response(endpoint, res.status, res.body, res.detail, get_db(db, res))

\* A query parameter's value: the one sent, or its declared default.
OrDefault(o, default) == IF o = None THEN default ELSE Val(o)

\* car_id: int = Path(..., ge=1)
solve_get_car(db, req) ==
    IF req.path[2].kind # "int" \/ req.path[2].int < 1
    THEN RequestValidationError("get_car", db)
    ELSE Handled("get_car", db, get_car(db, req.path[2].int))

\* status, min_distance (ge=0), max_distance (ge=0), limit (100, 1..500),
\* offset (0, ge=0)
solve_get_cars(db, req) ==
    LET q      == req.query
        limit  == OrDefault(q.limit, DefaultLimit)
        offset == OrDefault(q.offset, 0)
    IN IF \/ (q.status # None /\ Val(q.status) \notin CarStatus)
          \/ (q.min_distance # None /\ Val(q.min_distance) < 0)
          \/ (q.max_distance # None /\ Val(q.max_distance) < 0)
          \/ limit < 1 \/ limit > MaxLimit \/ offset < 0
       THEN RequestValidationError("get_cars", db)
       ELSE Handled("get_cars", db,
                    get_cars(db, q.status, q.min_distance, q.max_distance, limit, offset))

\* car: CarCreate -- distance gt=0, status defaulting to FREE
solve_create_car(db, req) ==
    LET b == req.body
    IN IF b.distance <= 0 \/ (b.status # None /\ Val(b.status) \notin CarStatus)
       THEN RequestValidationError("create_car", db)
       ELSE Handled("create_car", db,
                    create_car(db, [status |-> OrDefault(b.status, "FREE"),
                                    license_plate |-> b.license_plate,
                                    brand |-> b.brand, color |-> b.color,
                                    distance |-> b.distance]))

\* car_id: int, car_update: CarUpdate -- distance gt=0 when given
solve_update_car(db, req) ==
    LET b == req.body
    IN IF \/ req.path[2].kind # "int"
          \/ (b.status # None /\ Val(b.status) \notin CarStatus)
          \/ (b.distance # None /\ Val(b.distance) <= 0)
       THEN RequestValidationError("update_car", db)
       ELSE Handled("update_car", db, update_car(db, req.path[2].int, b))

\* min_rating (0..5), only_active (True), limit (100, 1..500), offset (0, ge=0)
solve_get_drivers(db, req) ==
    LET q      == req.query
        limit  == OrDefault(q.limit, DefaultLimit)
        offset == OrDefault(q.offset, 0)
    IN IF \/ (q.min_rating # None
                /\ (Val(q.min_rating) < 0 \/ Val(q.min_rating) > MaxRating))
          \/ limit < 1 \/ limit > MaxLimit \/ offset < 0
       THEN RequestValidationError("get_drivers", db)
       ELSE Handled("get_drivers", db,
                    get_drivers(db, q.min_rating, OrDefault(q.only_active, TRUE),
                                limit, offset))

\* driver_id: int = Path(..., ge=1)
solve_get_driver(db, req) ==
    IF req.path[2].kind # "int" \/ req.path[2].int < 1
    THEN RequestValidationError("get_driver", db)
    ELSE Handled("get_driver", db, get_driver(db, req.path[2].int))

\* driver: DriverCreate -- rating in [0,5] defaulting to 5.0
solve_create_driver(db, req) ==
    LET b      == req.body
        rating == OrDefault(b.rating, DefaultRating)
    IN IF rating < 0 \/ rating > MaxRating
       THEN RequestValidationError("create_driver", db)
       ELSE Handled("create_driver", db,
                    create_driver(db, [full_name |-> b.full_name, phone |-> b.phone,
                                       rating |-> rating, car_id |-> b.car_id]))

\* driver_id: int, driver_update: DriverUpdate -- rating in [0,5] when given
solve_update_driver(db, req) ==
    LET b == req.body
    IN IF \/ req.path[2].kind # "int"
          \/ (b.rating # None /\ (Val(b.rating) < 0 \/ Val(b.rating) > MaxRating))
       THEN RequestValidationError("update_driver", db)
       ELSE Handled("update_driver", db, update_driver(db, req.path[2].int, b))

\* threshold: float = Query(4.0, ge=0, le=5)
solve_get_drivers_low_rating(db, req) ==
    LET threshold == OrDefault(req.query.threshold, DefaultThreshold)
    IN IF threshold < 0 \/ threshold > MaxRating
       THEN RequestValidationError("get_drivers_low_rating", db)
       ELSE Handled("get_drivers_low_rating", db, get_drivers_low_rating(db, threshold))

\* The application: route the request, validate the parameters of the
\* endpoint it reached, run the endpoint.
app(db, req) ==
    LET endpoint == Dispatch(Routes, req.method, req.path)
    IN CASE endpoint = "get_cars_in_repair" ->
                Handled("get_cars_in_repair", db, get_cars_in_repair(db))
         [] endpoint = "get_car"        -> solve_get_car(db, req)
         [] endpoint = "get_cars"       -> solve_get_cars(db, req)
         [] endpoint = "create_car"     -> solve_create_car(db, req)
         [] endpoint = "update_car"     -> solve_update_car(db, req)
         [] endpoint = "get_drivers"    -> solve_get_drivers(db, req)
         [] endpoint = "get_driver"     -> solve_get_driver(db, req)
         [] endpoint = "create_driver"  -> solve_create_driver(db, req)
         [] endpoint = "update_driver"  -> solve_update_driver(db, req)
         [] endpoint = "get_drivers_low_rating" -> solve_get_drivers_low_rating(db, req)
         [] endpoint = "method_not_allowed" ->
                Response(endpoint, 405, <<>>, "method not allowed", db)
         [] OTHER -> Response(endpoint, 404, <<>>, "not found", db)

\* --------------------------------------------------------- request inputs
Request(method, path, query, body) ==
    [method |-> method, path |-> path, query |-> query, body |-> body]

\* Path identifiers sent to GET /cars/{car_id}: negative, zero, a seeded car,
\* the id the first created car receives.
CarPathIds == {-1, 0, 3, 8}
\* Path identifiers sent to PATCH /cars/{car_id}.
CarPatchIds == {0, 3, 8}
\* Path identifiers sent to /drivers/{driver_id}: zero, a seeded driver, the
\* id the first created driver receives.
DriverPathIds == {0, 2, 6}

\* The number of fields a body or query supplies.
Supplied(b) == Cardinality({f \in DOMAIN b : b[f] # None})

CarsQueries ==
    {q \in [status : {None, Some("REPAIR")}, min_distance : {None, Some(40)},
            max_distance : {None, Some(60)}, limit : {None, Some(2), Some(0)},
            offset : {None, Some(1)}] :
        /\ (q.min_distance = None <=> q.max_distance = None)
        /\ (q.min_distance = None <=> q.offset = None)}

CarCreateBodies ==
    [status : {None, Some("REPAIR")}, license_plate : {1, 8}, brand : {"Lada"},
     color : {"Red"}, distance : {0, 10}]

CarUpdateBodies ==
    [status : {None, Some("BUSY")}, color : {None, Some("Red")},
     distance : {None, Some(99), Some(0)}]

DriversQueries ==
    {q \in [min_rating : {None, Some(48)}, only_active : {None, Some(FALSE)},
            limit : {None, Some(2)}, offset : {None, Some(1)}] :
        q.limit = None <=> q.offset = None}

\* car_id: absent, 0, no car's id (negative, positive), a car a seeded driver
\* holds, a car nobody holds.  phone: a seeded driver's, two new ones.
\* rating: absent (the default 5.0), out of range.
DriverCreateBodies ==
    [full_name : {"Orlov"}, phone : {1, 6, 7}, rating : {None, Some(51)},
     car_id : {None, Some(0), Some(-1), Some(1), Some(3), Some(9)}]

\* car_id: absent, 0, no car's id, the car driver 1 holds, the car driver 2
\* holds, a car nobody holds.  phone: absent, driver 1's, a new one.
DriverUpdateBodies ==
    {b \in [full_name : {None, Some("Orlov")}, phone : {None, Some(1), Some(6)},
            rating : {None, Some(30)},
            car_id : {None, Some(0), Some(-1), Some(1), Some(2), Some(3)},
            is_active : {None, Some(FALSE)}] : Supplied(b) <= 2}

LowRatingQueries == [threshold : {None, Some(48), Some(60)}]

\* ------------------------------------------------------------------ state
VARIABLES
    cars,          \* the cars table
    drivers,       \* the drivers table
    nreq,          \* requests counted against MaxRequests
    last,          \* the last request and the response it received
    prev,          \* the tables as they were before the last request
    txn,           \* the requests being served concurrently, each at its step
    wlock          \* the request whose connection holds the write lock, or 0

vars == << cars, drivers, nreq, last, prev, txn, wlock >>

\* The store after init_db() ran on an empty database file.
Init ==
    /\ cars = SeedCars
    /\ drivers = SeedDrivers
    /\ nreq = 0
    /\ last = [req |-> Request("", <<>>, <<>>, <<>>), endpoint |-> "",
               status |-> 0, body |-> <<>>, detail |-> ""]
    /\ prev = [cars |-> SeedCars, drivers |-> SeedDrivers]
    /\ txn = <<>>
    /\ wlock = 0

\* The server answers one request.
Serve(req) ==
    LET r == app(Store(cars, drivers, foreign_keys), req)
    IN /\ cars' = r.db.cars
       /\ drivers' = r.db.drivers
       /\ last' = [req |-> req, endpoint |-> r.endpoint, status |-> r.status,
                   body |-> r.body, detail |-> r.detail]
       /\ prev' = [cars |-> cars, drivers |-> drivers]
       /\ UNCHANGED << txn, wlock >>

\* One more of the MaxRequests requests of a behaviour.
Count == nreq < MaxRequests /\ nreq' = nreq + 1

GetCarsInRepair ==
    Count /\ Serve(Request("GET", << Lit("cars"), Lit("in-repair") >>, <<>>, <<>>))

GetCar ==
    Count /\ \E id \in CarPathIds :
        Serve(Request("GET", << Lit("cars"), Num(id) >>, <<>>, <<>>))

GetCars ==
    Count /\ \E q \in CarsQueries :
        Serve(Request("GET", << Lit("cars") >>, q, <<>>))

PostCars ==
    Count /\ \E b \in CarCreateBodies :
        Serve(Request("POST", << Lit("cars") >>, <<>>, b))

PatchCar ==
    Count /\ \E id \in CarPatchIds, b \in CarUpdateBodies :
        Serve(Request("PATCH", << Lit("cars"), Num(id) >>, <<>>, b))

GetDrivers ==
    Count /\ \E q \in DriversQueries :
        Serve(Request("GET", << Lit("drivers") >>, q, <<>>))

GetDriver ==
    Count /\ \E id \in DriverPathIds :
        Serve(Request("GET", << Lit("drivers"), Num(id) >>, <<>>, <<>>))

PostDrivers ==
    Count /\ \E b \in DriverCreateBodies :
        Serve(Request("POST", << Lit("drivers") >>, <<>>, b))

PatchDriver ==
    Count /\ \E id \in DriverPathIds, b \in DriverUpdateBodies :
        Serve(Request("PATCH", << Lit("drivers"), Num(id) >>, <<>>, b))

GetDriversLowRating ==
    Count /\ \E q \in LowRatingQueries :
        Serve(Request("GET", << Lit("drivers"), Lit("low-rating") >>, q, <<>>))

\* A request no route serves: an unknown path, a known path with a method it
\* does not take.
OtherRequest ==
    Count /\ \E r \in {Request("GET", << Lit("trips") >>, <<>>, <<>>),
                       Request("DELETE", << Lit("cars"), Num(3) >>, <<>>, <<>>)} :
        Serve(r)

Next ==
    \/ GetCarsInRepair
    \/ GetCar
    \/ GetCars
    \/ PostCars
    \/ PatchCar
    \/ GetDrivers
    \/ GetDriver
    \/ PostDrivers
    \/ PatchDriver
    \/ GetDriversLowRating
    \/ OtherRequest

Spec == Init /\ [][Next]_vars

\* ------------------------------------------------- the fleet specification
\* The store grows by vehicles under repair, one POST /cars at a time, up to
\* MaxFleet rows; between creations the two repair listings are read.  nreq
\* is left alone: the behaviours of SpecFleet are bounded by the table.
FleetPostCars ==
    /\ Len(cars) < MaxFleet
    /\ \E plate \in {1, Len(cars) + 1} :
          Serve(Request("POST", << Lit("cars") >>, <<>>,
                        [status |-> Some("REPAIR"), license_plate |-> plate,
                         brand |-> "Lada", color |-> "Red", distance |-> 10]))
    /\ UNCHANGED nreq

FleetGetCars ==
    /\ Serve(Request("GET", << Lit("cars") >>,
                     [status |-> Some("REPAIR"), min_distance |-> None,
                      max_distance |-> None, limit |-> None, offset |-> None], <<>>))
    /\ UNCHANGED nreq

FleetGetCarsInRepair ==
    /\ Serve(Request("GET", << Lit("cars"), Lit("in-repair") >>, <<>>, <<>>))
    /\ UNCHANGED nreq

FleetNext ==
    \/ FleetPostCars
    \/ FleetGetCars
    \/ FleetGetCarsInRepair

SpecFleet == Init /\ [][FleetNext]_vars

\* ------------------------------------------- the concurrent specification
\* Two requests are served at the same time.  The endpoints are plain "def"
\* functions, so each runs in its own worker thread, and get_db() opens one
\* connection per request.  A connection reads the committed store: the
\* sqlite3 module opens a transaction only before an INSERT or UPDATE, and
\* another connection's uncommitted rows are not visible.  The first write
\* statement of a connection takes the database's write lock and keeps it,
\* whether the statement succeeded or raised IntegrityError, until get_db()
\* commits or rolls back.  A write statement that finds the lock taken waits
\* for it (sqlite3.connect's default busy timeout); the holder is on its
\* straight path from the statement to commit() or rollback(), so the wait is
\* modelled as the step being disabled until the lock is released.
Procs == {1, 2}

\* Vehicle ids: one driver 1 holds, two nobody holds, one no car has.
RaceVehicles == {1, 3, 6, 9}

\* The driver-assignment requests: POST /drivers with a seeded or a new phone,
\* PATCH /drivers/{id} of driver 1 or 2 supplying car_id alone.
RaceRequests ==
    { [op |-> "create_driver", driver_id |-> 0,
       body |-> [full_name |-> "Orlov", phone |-> ph, rating |-> DefaultRating,
                 car_id |-> Some(v)]] : ph \in {1, 6}, v \in RaceVehicles }
    \cup
    { [op |-> "update_driver", driver_id |-> id,
       body |-> [full_name |-> None, phone |-> None, rating |-> None,
                 car_id |-> Some(v), is_active |-> None]] :
          id \in {1, 2}, v \in RaceVehicles }

\* The first statement of a handler body.
FirstStep(r) ==
    IF r.op = "update_driver" THEN "check_driver"
    ELSE IF Truthy(r.body.car_id) THEN "check_car"
    ELSE "write"

\* Both requests have arrived and entered their "with get_db() as conn" block
\* on the store init_db() left; res is the outcome of the handler body, blank
\* until the body is left.
RaceInit ==
    /\ cars = SeedCars
    /\ drivers = SeedDrivers
    /\ nreq = 0
    /\ last = [req |-> Request("", <<>>, <<>>, <<>>), endpoint |-> "",
               status |-> 0, body |-> <<>>, detail |-> ""]
    /\ prev = [cars |-> SeedCars, drivers |-> SeedDrivers]
    /\ \E r \in [Procs -> RaceRequests] :
          txn = [p \in Procs |->
                    [op |-> r[p].op, driver_id |-> r[p].driver_id, body |-> r[p].body,
                     pc |-> FirstStep(r[p]), attempts |-> 0,
                     res |-> Return(0, <<>>, <<>>)]]
    /\ wlock = 0

\* The committed store, which every SELECT outside a transaction reads.
RaceDb == Store(cars, drivers, foreign_keys)

\* The request moves on to its next statement.
Goto(p, pc) == txn' = [txn EXCEPT ![p].pc = pc]

\* The handler body is left, by return or by raise, with outcome res.
Leave(p, res) == txn' = [txn EXCEPT ![p].pc = "exit", ![p].res = res]

\* update_driver: SELECT id FROM drivers WHERE id = ?, then the car_id tests.
RaceCheckDriver ==
    \E p \in Procs :
       /\ txn[p].pc = "check_driver"
       /\ IF SelectDriverById(RaceDb, txn[p].driver_id) = <<>>
          THEN Leave(p, HTTPException(404, "driver not found", RaceDb))
          ELSE IF Truthy(txn[p].body.car_id)
          THEN Goto(p, "check_car")
          ELSE Goto(p, "write")
       /\ UNCHANGED << cars, drivers, nreq, last, prev, wlock >>

\* SELECT id FROM cars WHERE id = ?
RaceCheckCar ==
    \E p \in Procs :
       /\ txn[p].pc = "check_car"
       /\ IF SelectCarById(RaceDb, Val(txn[p].body.car_id)) = <<>>
          THEN Leave(p, HTTPException(400,
                           IF txn[p].op = "create_driver"
                           THEN "car with this id does not exist"
                           ELSE "car does not exist", RaceDb))
          ELSE Goto(p, "check_holder")
       /\ UNCHANGED << cars, drivers, nreq, last, prev, wlock >>

\* SELECT id FROM drivers WHERE car_id = ?  [AND id != ?  in update_driver]
RaceCheckHolder ==
    \E p \in Procs :
       /\ txn[p].pc = "check_holder"
       /\ IF SelectSeq(drivers, LAMBDA d :
                 /\ d.car_id = txn[p].body.car_id
                 /\ (txn[p].op = "update_driver" => d.id # txn[p].driver_id)) # <<>>
          THEN Leave(p, HTTPException(400, "car already assigned to another driver",
                                      RaceDb))
          ELSE Goto(p, "write")
       /\ UNCHANGED << cars, drivers, nreq, last, prev, wlock >>

\* The INSERT of create_driver or the UPDATE of update_driver, with the
\* statements that follow it on the same connection up to the return.  The
\* statement runs once the write lock is free and takes it; an update_driver
\* with nothing to set runs a SELECT only.
RaceWrite ==
    \E p \in Procs :
       LET t      == txn[p]
           car_id == IF Truthy(t.body.car_id) THEN t.body.car_id ELSE None
           writes == \/ t.op = "create_driver"
                     \/ car_id # None
                     \/ \E f \in {"full_name", "phone", "rating", "is_active"} :
                           t.body[f] # None
           res    == IF t.op = "create_driver"
                     THEN create_driver_insert(RaceDb, t.body)
                     ELSE update_driver_write(RaceDb, t.driver_id, t.body, car_id)
       IN /\ t.pc = "write"
          /\ writes => wlock = 0
          /\ txn' = [txn EXCEPT ![p].pc = "exit", ![p].res = res,
                                ![p].attempts = IF writes THEN @ + 1 ELSE @]
          /\ wlock' = IF writes THEN p ELSE wlock
          /\ UNCHANGED << cars, drivers, nreq, last, prev >>

\* get_db() after the block completed: conn.commit(), conn.close().
RaceCommit ==
    \E p \in Procs :
       /\ txn[p].pc = "exit"
       /\ ~txn[p].res.raised
       /\ LET db == IF wlock = p THEN get_db(RaceDb, txn[p].res) ELSE RaceDb
          IN cars' = db.cars /\ drivers' = db.drivers
       /\ wlock' = IF wlock = p THEN 0 ELSE wlock
       /\ Goto(p, "done")
       /\ UNCHANGED << nreq, last, prev >>

\* get_db() after the block raised: conn.rollback(), conn.close(), re-raise.
RaceRollback ==
    \E p \in Procs :
       /\ txn[p].pc = "exit"
       /\ txn[p].res.raised
       /\ LET db == get_db(RaceDb, txn[p].res)
          IN cars' = db.cars /\ drivers' = db.drivers
       /\ wlock' = IF wlock = p THEN 0 ELSE wlock
       /\ Goto(p, "done")
       /\ UNCHANGED << nreq, last, prev >>

RaceNext ==
    \/ RaceCheckDriver
    \/ RaceCheckCar
    \/ RaceCheckHolder
    \/ RaceWrite
    \/ RaceCommit
    \/ RaceRollback

SpecRace == RaceInit /\ [][RaceNext]_vars

\* ------------------------------------------------------------- properties
\* The store the last request was served from.
PrevStore == Store(prev.cars, prev.drivers, foreign_keys)

\* The last request reached the named endpoint and passed its validation.
Ran(endpoint) == last.endpoint = endpoint /\ last.status # 422

\* The last request left both tables as it found them.
StoreUnchanged == cars = prev.cars /\ drivers = prev.drivers

\* C1: a successful update_driver whose body supplies car_id = 0 leaves the
\* addressed driver's vehicle reference null, whatever it was before and
\* whatever other fields are supplied.
C1_UnassignClearsReference ==
    (Ran("update_driver") /\ last.status = 200 /\ last.req.body.car_id = Some(0))
        => drivers[last.req.path[2].int].car_id = None

\* C2: no two distinct driver rows, active or not, hold the same non-null
\* vehicle reference.
C2_UniqueVehicleReference ==
    \A i, j \in 1..Len(drivers) :
        (i # j /\ drivers[i].car_id # None) => drivers[i].car_id # drivers[j].car_id

\* C2 witness: a create_driver whose car_id passed the handler's pre-checks was
\* refused by the store because another driver row already holds that value.
C2_Witness ==
    /\ Ran("create_driver")
    /\ last.status = 400
    /\ last.detail = "integrity error"
    /\ \E i \in 1..Len(drivers) : drivers[i].car_id = last.req.body.car_id

\* C3: every driver row with a non-null vehicle reference references the id
\* of a row of the cars table.
C3_ReferenceExists ==
    \A i \in 1..Len(drivers) :
        drivers[i].car_id # None
            => \E k \in 1..Len(cars) : cars[k].id = Val(drivers[i].car_id)

\* C4: when driver A references vehicle V, a request giving V to another
\* driver B (update_driver on B with car_id = V, create_driver with
\* car_id = V) is answered 400, and A still references V and no driver row
\* has changed.
C4_SecondAssignmentRefused ==
    \A a \in 1..Len(prev.drivers) :
        LET v == prev.drivers[a].car_id
        IN ( /\ v # None
             /\ \E k \in 1..Len(prev.cars) : prev.cars[k].id = Val(v)
             /\ \/ /\ Ran("update_driver")
                   /\ last.req.path[2].int \in 1..Len(prev.drivers)
                   /\ last.req.path[2].int # a
                   /\ last.req.body.car_id = v
                \/ /\ Ran("create_driver")
                   /\ last.req.body.car_id = v )
           => /\ last.status = 400
              /\ drivers[a].car_id = v
              /\ drivers = prev.drivers

\* C4 witness: update_driver on an existing driver asked for a vehicle another
\* driver holds and was refused.
C4_Witness ==
    /\ Ran("update_driver")
    /\ last.status = 400
    /\ last.detail = "car already assigned to another driver"
    /\ \E a \in 1..Len(drivers) :
          a # last.req.path[2].int /\ drivers[a].car_id = last.req.body.car_id

\* C5: GET /drivers/low-rating with a threshold in [0,5] (default 4.0) is
\* served by the low-rating endpoint and answered 200 with exactly the active
\* drivers rated strictly below the threshold, in ascending rating order.
C5_LowRatingServed ==
    ( /\ last.req.method = "GET"
      /\ last.req.path = << Lit("drivers"), Lit("low-rating") >>
      /\ OrDefault(last.req.query.threshold, DefaultThreshold) \in 0..MaxRating )
    => /\ last.endpoint = "get_drivers_low_rating"
       /\ last.status = 200
       /\ LET t    == OrDefault(last.req.query.threshold, DefaultThreshold)
               want == {i \in 1..Len(prev.drivers) :
                          prev.drivers[i].is_active = 1 /\ prev.drivers[i].rating < t}
          IN /\ Len(last.body) = Cardinality(want)
             /\ {last.body[k].id : k \in 1..Len(last.body)} = want
             /\ \A k \in 1..Len(last.body) - 1 :
                   last.body[k].rating <= last.body[k + 1].rating

\* The vehicles of a listing, without the nested driver.
Vehicles(body) == {CarOut(body[k]) : k \in 1..Len(body)}

\* GET /cars?status=REPAIR, every other parameter at its default.
RepairQuery ==
    Request("GET", << Lit("cars") >>,
            [status |-> Some("REPAIR"), min_distance |-> None, max_distance |-> None,
             limit |-> None, offset |-> None], <<>>)

\* GET /cars/in-repair
InRepairRequest == Request("GET", << Lit("cars"), Lit("in-repair") >>, <<>>, <<>>)

\* The two repair listings of the current store hold the same vehicles.
SameRepairListings ==
    LET db == Store(cars, drivers, foreign_keys)
    IN Vehicles(app(db, RepairQuery).body) = Vehicles(app(db, InRepairRequest).body)

\* The number of vehicles under repair.
InRepair == Cardinality({k \in 1..Len(cars) : cars[k].status = "REPAIR"})

\* C6 as stated: in every reachable store, get_cars with status=REPAIR and
\* default limit and offset returns the same set of vehicles as
\* get_cars_in_repair, however many vehicles are under repair.
C6_SameRepairListings == SameRepairListings

\* C6 as amended: the two listings hold the same vehicles whenever at most
\* DefaultLimit (100) vehicles are under repair.
C6_SameRepairListingsWithinLimit == InRepair <= DefaultLimit => SameRepairListings

\* C6 witness: get_cars with status=REPAIR has just returned a full default
\* page, every vehicle under repair on it.
C6_Witness ==
    /\ Ran("get_cars")
    /\ last.req.query.status = Some("REPAIR")
    /\ last.req.query.limit = None
    /\ InRepair = DefaultLimit
    /\ Len(last.body) = DefaultLimit

\* C7: create_car with the plate of an existing vehicle is answered 400 and
\* leaves the cars table as it was; no two vehicles share a plate; create_car
\* with an unused plate is answered 201 and adds exactly one vehicle, under
\* an id no vehicle had.
C7_UniquePlate ==
    /\ \A i, j \in 1..Len(cars) :
          i # j => cars[i].license_plate # cars[j].license_plate
    /\ Ran("create_car") =>
          LET plate == last.req.body.license_plate
              n     == Len(prev.cars)
          IN IF \E k \in 1..n : prev.cars[k].license_plate = plate
             THEN last.status = 400 /\ cars = prev.cars
             ELSE /\ last.status = 201
                  /\ Len(cars) = n + 1
                  /\ SubSeq(cars, 1, n) = prev.cars
                  /\ cars[n + 1].license_plate = plate
                  /\ \A k \in 1..n : prev.cars[k].id # cars[n + 1].id
                  /\ last.body.id = cars[n + 1].id

\* C7 witness: create_car was refused for the plate of a vehicle that an
\* earlier create_car added.
C7_Witness ==
    /\ Ran("create_car")
    /\ last.status = 400
    /\ Len(cars) > Len(SeedCars)
    /\ cars[Len(cars)].license_plate = last.req.body.license_plate

\* C8: GET and PATCH on /cars/{id} and /drivers/{id} answer a zero or
\* negative id with 422, without touching the store.
C8_NonPositiveIdRejected ==
    ( /\ last.req.method \in {"GET", "PATCH"}
      /\ Len(last.req.path) = 2
      /\ last.req.path[1] \in {Lit("cars"), Lit("drivers")}
      /\ last.req.path[2].kind = "int"
      /\ last.req.path[2].int <= 0 )
    => last.status = 422 /\ StoreUnchanged

\* C9: a successful update_car or update_driver leaves every omitted field of
\* the addressed row, and every other row of both tables, as it was; with
\* no field supplied it answers 200 with the stored row, itself unchanged.
C9_PartialUpdateFrame ==
    /\ (Ran("update_car") /\ last.status = 200) =>
          LET id == last.req.path[2].int
              b  == last.req.body
          IN /\ drivers = prev.drivers
             /\ Len(cars) = Len(prev.cars)
             /\ \A k \in 1..Len(cars) : k # id => cars[k] = prev.cars[k]
             /\ cars[id].id = prev.cars[id].id
             /\ cars[id].license_plate = prev.cars[id].license_plate
             /\ cars[id].brand = prev.cars[id].brand
             /\ b.status = None => cars[id].status = prev.cars[id].status
             /\ b.color = None => cars[id].color = prev.cars[id].color
             /\ b.distance = None => cars[id].distance = prev.cars[id].distance
             /\ Supplied(b) = 0 => last.body = CarOut(prev.cars[id])
    /\ (Ran("update_driver") /\ last.status = 200) =>
          LET id == last.req.path[2].int
              b  == last.req.body
          IN /\ cars = prev.cars
             /\ Len(drivers) = Len(prev.drivers)
             /\ \A k \in 1..Len(drivers) : k # id => drivers[k] = prev.drivers[k]
             /\ drivers[id].id = prev.drivers[id].id
             /\ b.full_name = None => drivers[id].full_name = prev.drivers[id].full_name
             /\ b.phone = None => drivers[id].phone = prev.drivers[id].phone
             /\ b.rating = None => drivers[id].rating = prev.drivers[id].rating
             /\ b.car_id = None => drivers[id].car_id = prev.drivers[id].car_id
             /\ b.is_active = None => drivers[id].is_active = prev.drivers[id].is_active
             /\ Supplied(b) = 0 => last.body = DriverOut(prev.drivers[id])

\* C9 witness: update_car changed a vehicle's colour on a request that left
\* status and distance out.
C9_Witness ==
    /\ Ran("update_car")
    /\ last.status = 200
    /\ last.req.body.status = None
    /\ last.req.body.distance = None
    /\ last.req.body.color # None
    /\ cars # prev.cars

\* C10: a request answered with an error (404, 400, or any other status from
\* 400 up) leaves both tables exactly as they were before it.
C10_ErrorLeavesStoreUnchanged == last.status >= 400 => StoreUnchanged

\* C10 witness: update_driver supplied a new name together with another
\* driver's phone; the UPDATE raised the integrity error, answered 400.
C10_Witness ==
    /\ Ran("update_driver")
    /\ last.status = 400
    /\ last.detail = "uniqueness violated (phone may be in use)"
    /\ last.req.body.full_name # None
    /\ last.req.body.phone # None

\* Request p of the race has left get_db(): its response is final.
Done(p) == txn[p].pc = "done"

\* Request p of the race returned its driver and get_db() committed.
Committed(p) == Done(p) /\ ~txn[p].res.raised

\* The two requests of the race assign the same vehicle V, a car that exists
\* and that no driver held when they arrived, and they are not two updates of
\* one driver.
RaceFor(V) ==
    /\ \A p \in Procs : txn[p].body.car_id = Some(V)
    /\ \E i \in 1..Len(SeedCars) : SeedCars[i].id = V
    /\ \A i \in 1..Len(SeedDrivers) : SeedDrivers[i].car_id # Some(V)
    /\ \A p, q \in Procs :
          (p # q /\ txn[p].op = "update_driver" /\ txn[q].op = "update_driver")
              => txn[p].driver_id # txn[q].driver_id

\* C11: when two driver-assignment requests (create_driver or update_driver,
\* on different drivers) for the same unassigned vehicle V run concurrently,
\* their pre-check reads and their writes interleaved in any order, then in
\* every state at most one driver row references V, at most one of the two
\* has committed, neither has executed its write statement more than once,
\* and once both are finished one of them was answered 400 while the other
\* either committed or was answered 400 as well.
C11_ConcurrentAssignment ==
    \A V \in RaceVehicles :
        RaceFor(V) =>
            /\ Cardinality({i \in 1..Len(drivers) : drivers[i].car_id = Some(V)}) <= 1
            /\ Cardinality({p \in Procs : Committed(p)}) <= 1
            /\ \A p \in Procs : txn[p].attempts <= 1
            /\ (\A p \in Procs : Done(p)) =>
                  \E p \in Procs :
                      /\ txn[p].res.status = 400
                      /\ \A q \in Procs \ {p} :
                            Committed(q) \/ txn[q].res.status = 400

\* C11 witness: both requests passed their pre-checks on the free vehicle, one
\* committed its reference, and the other's write statement was refused by
\* the store and answered 400.
C11_Witness ==
    \E V \in RaceVehicles :
        /\ RaceFor(V)
        /\ \E i \in 1..Len(drivers) : drivers[i].car_id = Some(V)
        /\ \E p, q \in Procs :
              /\ p # q
              /\ Committed(p)
              /\ Done(q)
              /\ txn[q].attempts = 1
              /\ txn[q].res.status = 400
              /\ txn[q].res.detail \in {"integrity error",
                                        "uniqueness violated (phone may be in use)"}

====
